---- MODULE Spec2Model ----
(***************************************************************************)
(* Model of cantrips.protocol.messaging: the layered dispatch chain        *)
(* (layers.py), the translator's parse path (formats.py) and the           *)
(* connection processor (processor.py).                                    *)
(*                                                                         *)
(* Every method of the processor is modelled by an operator that yields    *)
(* the SET of its possible results, one per behaviour of the user code it  *)
(* calls (hooks, layer handlers).  A result is the sequence of calls that  *)
(* were made (log) and the exception that left the method (exc).           *)
(***************************************************************************)
EXTENDS Integers, Sequences, FiniteSets, TLC

VARIABLES
    strict,        \* MessageProcessor.strict
    TRANSLATOR,    \* class of the processor type's TRANSLATOR instance
    LAYERS,        \* the handler tables of the processor type's layers
    registry,      \* Translator.__map : namespace -> registered codes
    call,          \* the last event delivered by the runtime
    events,        \* calls made while that event was processed
    escaped,       \* exception that propagated to the runtime
    closed,        \* _conn_close has been executed on this connection
    closedBefore,  \* value of closed when the last event was delivered
    tmap,          \* Translator.__map : raw value -> CommandNamespaceMap
    result,        \* what the last call on the translator returned
    timeout,       \* the attributes of one Timeout and of its backend timer
    inbox,         \* frames the runtime has received and not yet delivered
    stack,         \* activations of _conn_message that have not returned
    layerTranslator,  \* ProtocolLayer.__translator of each layer being set up
    legacy         \* the legacy processor type: _protocol_config() and _ns_set

vars == <<strict, TRANSLATOR, LAYERS, registry, call, events, escaped,
          closed, closedBefore, tmap, result, timeout, inbox, stack,
          layerTranslator, legacy>>

----------------------------------------------------------------------------
(* Bounds *)

NumLayers == 2
MaxHandlers == 3
MaxCommands == 2
\* bits in each half of an integer command: 32 in formats.py, scaled down so
\* that a whole command stays a small integer
WordBits == 2

----------------------------------------------------------------------------
(* formats.py: command addressing *)

ANY_COMMAND == "__any__"
Namespaces == {"a", "b"}
Codes == {"x", "y"}
UnknownNamespace == "zz"
UnknownCode == "qq"

Key(ns, cmd) == <<ns, cmd>>
Keys == {Key(ANY_COMMAND, ANY_COMMAND)}
        \cup {Key(n, ANY_COMMAND) : n \in Namespaces}
        \cup {Key(n, c) : n \in Namespaces, c \in Codes}

Handlers == {"h1", "h2"}
NoHandler == "None"

NoExc == "none"
None == "None"

Message(ns, cmd) == [ns |-> ns, cmd |-> cmd]
NoMessage == Message("", "")

----------------------------------------------------------------------------
(* Calls recorded in a log *)

E0 == [op |-> "", layer |-> 0, ns |-> "", cmd |-> "", h |-> "", out |-> "",
       code |-> 0, reason |-> "", ctx |-> "", err |-> ""]

Ret(log) == [log |-> log, exc |-> NoExc]
Raise(log, e) == [log |-> log, exc |-> e]
Prefix(e, R) == {[log |-> <<e>> \o r.log, exc |-> r.exc] : r \in R}
After(r, K) == {[log |-> r.log \o k.log, exc |-> k.exc] : k \in K}

----------------------------------------------------------------------------
(* layers.py: ProtocolLayer *)

\* self.__handlers.get((ns, c)): the handler registered under the key or None.
\* A table is a function from the registered keys to their handlers.
Get(table, ns, c) ==
    IF Key(ns, c) \in DOMAIN table THEN table[Key(ns, c)] ELSE NoHandler

\* the catch-all handler looked up first
FindHandlerCatchAllFirst(table, message) ==
    IF Get(table, ANY_COMMAND, ANY_COMMAND) # NoHandler
    THEN Get(table, ANY_COMMAND, ANY_COMMAND)
    ELSE IF Get(table, message.ns, ANY_COMMAND) # NoHandler
    THEN Get(table, message.ns, ANY_COMMAND)
    ELSE Get(table, message.ns, message.cmd)

\* The `or` chain of process_message (handlers are functions or bound
\* methods, which are never falsy); NoHandler stands for the final lambda
\* that calls i_cannot_handle().
FindHandler(table, message) ==
    IF Get(table, message.ns, message.cmd) # NoHandler
    THEN Get(table, message.ns, message.cmd)
    ELSE IF Get(table, message.ns, ANY_COMMAND) # NoHandler
    THEN Get(table, message.ns, ANY_COMMAND)
    ELSE Get(table, ANY_COMMAND, ANY_COMMAND)

\* What a registered handler may do when it is invoked.
HandlerOutcomes ==
    {"ok", "ICannotHandle", "NobodyCanHandle", "CloseConnection", "Exception"}

Outcome(o) == IF o = "ok" THEN NoExc ELSE o

\* layer.process_message(socket, message) on the layer with that table.
process_message(layer, table, message) ==
    LET h == FindHandler(table, message)
        e == [E0 EXCEPT !.op = "process_message", !.layer = layer,
                        !.ns = message.ns, !.cmd = message.cmd, !.h = h]
    IN  IF h = NoHandler
        THEN {Raise(<<[e EXCEPT !.out = "ICannotHandle"]>>, "ICannotHandle")}
        ELSE {[log |-> <<[e EXCEPT !.out = o]>>, exc |-> Outcome(o)] :
                 o \in HandlerOutcomes}

\* Translator.namespace(spec): setdefault on the translator's map.
namespace(reg, ns) ==
    IF ns \in DOMAIN reg THEN reg
    ELSE [n \in DOMAIN reg \cup {ns} |-> IF n = ns THEN {} ELSE reg[n]]

\* CommandNamespaceMap.add_command(spec) on the entry of namespace ns.
add_command(reg, ns, cmd) == [reg EXCEPT ![ns] = @ \cup {cmd}]

\* layer.add_command_handler(namespace, command, handler): the exception it
\* raises, and the handler table and translator map it leaves.
add_command_handler(table, reg, ns, cmd, h) ==
    IF h = NoHandler
    THEN [exc |-> "TypeError", table |-> table, reg |-> reg]
    ELSE IF ns = ANY_COMMAND /\ cmd # ANY_COMMAND
    THEN [exc |-> "ValueError", table |-> table, reg |-> reg]
    ELSE [exc |-> NoExc,
          table |-> [k \in DOMAIN table \cup {Key(ns, cmd)} |->
                        IF k = Key(ns, cmd) THEN h ELSE table[k]],
          reg |-> IF ns = ANY_COMMAND THEN reg
                  ELSE IF cmd = ANY_COMMAND THEN namespace(reg, ns)
                  ELSE add_command(namespace(reg, ns), ns, cmd)]

----------------------------------------------------------------------------
(* processor.py: MessageProcessor *)

HookOutcomes == {"ok", "CloseConnection", "Exception"}

\* A user hook (_on_hello, _on_goodbye, _on_unknown_message, ...).
Hook(e) ==
    {[log |-> <<[e EXCEPT !.out = o]>>, exc |-> Outcome(o)] : o \in HookOutcomes}

conn_close(code, reason) ==
    {Ret(<<[E0 EXCEPT !.op = "_conn_close", !.code = code, !.reason = reason]>>)}

on_forceful_close(code, reason) ==
    Hook([E0 EXCEPT !.op = "_on_forceful_close", !.code = code,
                    !.reason = reason])

\* the connection closed without the hook
forceful_close_no_hook(code, reason) ==
    Prefix([E0 EXCEPT !.op = "_forceful_close", !.code = code,
                      !.reason = reason],
           conn_close(code, reason))

forceful_close(code, reason) ==
    Prefix([E0 EXCEPT !.op = "_forceful_close", !.code = code,
                      !.reason = reason],
           UNION {IF r.exc = NoExc THEN After(r, conn_close(code, reason))
                  ELSE {r} : r \in on_forceful_close(code, reason)})

close_invalid_format == forceful_close(1003, "Message format error")

close_protocol_violation ==
    forceful_close(1002, "Unexistent or unavailable message")

\* the code of the protocol violation pasted into _close_unknown
close_unknown_wrong_code ==
    forceful_close(1002, "Cannot fullfill request: Internal server error")

close_unknown ==
    forceful_close(1011, "Cannot fullfill request: Internal server error")

unknown_exception(error, context) ==
    Prefix([E0 EXCEPT !.op = "_unknown_exception", !.ctx = context,
                      !.err = error],
           IF strict THEN close_unknown
           ELSE Hook([E0 EXCEPT !.op = "_on_unknown_exception",
                                !.ctx = context, !.err = error]))

serializer_exception(error) ==
    Prefix([E0 EXCEPT !.op = "_serializer_exception", !.err = error],
           IF strict THEN close_invalid_format
           ELSE Hook([E0 EXCEPT !.op = "_on_serializer_exception",
                                !.err = error]))

\* the test of self.strict inverted
unknown_message_inverted(message) ==
    Prefix([E0 EXCEPT !.op = "_unknown_message", !.ns = message.ns,
                      !.cmd = message.cmd],
           IF ~strict THEN close_protocol_violation
           ELSE Hook([E0 EXCEPT !.op = "_on_unknown_message",
                                !.ns = message.ns, !.cmd = message.cmd]))

unknown_message(message) ==
    Prefix([E0 EXCEPT !.op = "_unknown_message", !.ns = message.ns,
                      !.cmd = message.cmd],
           IF strict THEN close_protocol_violation
           ELSE Hook([E0 EXCEPT !.op = "_on_unknown_message",
                                !.ns = message.ns, !.cmd = message.cmd]))

\* the connection closed before the goodbye hook runs
terminate_close_first ==
    LET body == UNION {After(c, Hook([E0 EXCEPT !.op = "_on_goodbye"])) :
                          c \in conn_close(1000, "")}
    IN  Prefix([E0 EXCEPT !.op = "terminate"],
               UNION {IF r.exc = NoExc THEN {r}
                      ELSE After(r, unknown_exception(r.exc, "terminate")) :
                         r \in body})

\* a CloseConnection of the goodbye hook let through to the caller
terminate_lets_close_through ==
    LET body == UNION {IF r.exc = NoExc THEN After(r, conn_close(1000, ""))
                       ELSE {r} :
                          r \in Hook([E0 EXCEPT !.op = "_on_goodbye"])}
    IN  Prefix([E0 EXCEPT !.op = "terminate"],
               UNION {IF r.exc \in {NoExc, "CloseConnection"} THEN {r}
                      ELSE After(r, unknown_exception(r.exc, "terminate")) :
                         r \in body})

\* try: _on_goodbye(); _conn_close(1000)  except Exception as e: ...
terminate ==
    LET body == UNION {IF r.exc = NoExc THEN After(r, conn_close(1000, ""))
                       ELSE {r} :
                          r \in Hook([E0 EXCEPT !.op = "_on_goodbye"])}
    IN  Prefix([E0 EXCEPT !.op = "terminate"],
               UNION {IF r.exc = NoExc THEN {r}
                      ELSE After(r, unknown_exception(r.exc, "terminate")) :
                         r \in body})

\* every failure of _on_hello taken for an unknown exception
conn_made_no_close_clause ==
    UNION {IF r.exc = NoExc THEN {r}
           ELSE After(r, unknown_exception(r.exc, "_conn_made")) :
              r \in Hook([E0 EXCEPT !.op = "_on_hello"])}

conn_made ==
    UNION {IF r.exc = NoExc THEN {r}
           ELSE IF r.exc = "CloseConnection" THEN After(r, terminate)
           ELSE After(r, unknown_exception(r.exc, "_conn_made")) :
              r \in Hook([E0 EXCEPT !.op = "_on_hello"])}

----------------------------------------------------------------------------
(* formats.py: Translator.parse_data *)

Translators == {"JSONTranslator", "MsgPackTranslator", "UserTranslator"}

\* JSONTranslator.__init__ / MsgPackTranslator.__init__
Format(translator) ==
    IF translator = "MsgPackTranslator" THEN "FORMAT_INTEGER"
    ELSE "FORMAT_STRING"

\* What the runtime may deliver.  A payload is described by what the codec's
\* loads() makes of it: nothing (undecodable), a value that is no map, or a
\* map with or without a `code`, whose token splits into (ns, cmd).
Payload(kind, hascode, ns, cmd, args, kwargs) ==
    [kind |-> kind, hascode |-> hascode, ns |-> ns, cmd |-> cmd,
     args |-> args, kwargs |-> kwargs]
NoData == Payload("", FALSE, "", "", "", "")
Opaque == Payload("opaque", FALSE, "", "", "", "")
Envelope(hascode, ns, cmd) == Payload("map", hascode, ns, cmd, "list", "dict")
Data ==
    {Payload("undecodable", FALSE, "", "", "", ""),
     Payload("nonmap", FALSE, "", "", "", ""),
     Envelope(FALSE, "", ""),
     Envelope(TRUE, "a", "x"),
     Envelope(TRUE, "a", UnknownCode),
     Envelope(TRUE, UnknownNamespace, "x"),
     Payload("map", TRUE, "a", "x", "other", "dict"),
     Payload("map", TRUE, "a", "x", "list", "other")}
Binary == {None, "True", "False"}

Parsed(message) == [exc |-> NoExc, errcode |-> "", message |-> message]
Failed(exc, errcode) == [exc |-> exc, errcode |-> errcode, message |-> NoMessage]

\* format.exceptions: what the codec's loads() raises on undecodable data.
BrokerException(format) ==
    IF format = "FORMAT_STRING" THEN "ValueError" ELSE "UnpackException"

\* Translator.translate: the unknown namespace resolves to a map without codes.
translate(reg, ns, cmd) ==
    LET map == IF ns \in DOMAIN reg THEN reg[ns] ELSE {}
    IN  IF cmd \in map THEN Parsed(Message(ns, cmd))
        ELSE Failed("KeyError", "")

\* `'code' not in dict` (formats.py:265) tests membership in the builtin type
\* dict, not in the decoded data: the test itself raises TypeError.
code_not_in_dict(data) == [exc |-> "TypeError", value |-> ~data.hascode]

\* the message built from the token as it came, without any lookup
parse_data_trusting(format, reg, data, binary) ==
    IF binary # None /\ binary = "True" /\ format = "FORMAT_STRING"
    THEN Failed("Translator.Error", "UNEXPECTED_BINARY")
    ELSE IF binary # None /\ binary # "True" /\ format = "FORMAT_STRING"
    THEN Failed("Translator.Error", "UNEXPECTED_TEXT")
    ELSE IF data.kind = "undecodable"
    THEN Failed(BrokerException(format), "")
    ELSE IF data.kind # "map"
    THEN Failed("Translator.Error", "EXPECTED_MAP")
    ELSE IF ~data.hascode
    THEN Failed("Translator.Error", "EXPECTED_MAP_WITH_CODE")
    ELSE Parsed(Message(data.ns, data.cmd))

parse_data(format, reg, data, binary) ==
    IF binary # None /\ binary = "True" /\ format = "FORMAT_STRING"
    THEN Failed("Translator.Error", "UNEXPECTED_BINARY")
    ELSE IF binary # None /\ binary # "True" /\ format = "FORMAT_STRING"
    THEN Failed("Translator.Error", "UNEXPECTED_TEXT")
    ELSE IF data.kind = "undecodable"
    THEN Failed(BrokerException(format), "")
    ELSE IF data.kind # "map"
    THEN Failed("Translator.Error", "EXPECTED_MAP")
    ELSE IF code_not_in_dict(data).exc # NoExc
    THEN Failed(code_not_in_dict(data).exc, "")
    ELSE IF code_not_in_dict(data).value
    THEN Failed("Translator.Error", "EXPECTED_MAP_WITH_CODE")
    ELSE IF translate(reg, data.ns, data.cmd).exc = "KeyError"
    THEN Failed("Translator.Error", "UNKNOWN_COMMAND")
    ELSE IF data.args # "list"
    THEN Failed("Translator.Error", "EXPECTED_ARGS_AS_LIST")
    ELSE IF data.kwargs # "dict"
    THEN Failed("Translator.Error", "EXPECTED_KWARGS_AS_DICT")
    ELSE translate(reg, data.ns, data.cmd)

RegisteredMessages(reg) ==
    {Message(n, c) : n \in DOMAIN reg, c \in Codes} \cap
    UNION {{Message(n, c) : c \in reg[n]} : n \in DOMAIN reg}

\* self.TRANSLATOR.parse_data(data, binary).  TRANSLATOR is an instance of any
\* subclass of Translator: for one of the two shipped classes the result is
\* that of Translator.parse_data; a subclass that overrides parse_data returns
\* a message of a registered command or raises.
trans_parse(data, binary) ==
    IF TRANSLATOR = "UserTranslator"
    THEN {Parsed(m) : m \in RegisteredMessages(registry)}
         \cup {Failed("Translator.Error", "UNKNOWN_COMMAND"),
               Failed("ValueError", "")}
    ELSE {parse_data(Format(TRANSLATOR), registry, data, binary)}

----------------------------------------------------------------------------
(* processor.py: MessageProcessor._conn_message *)

\* self._serializer_exceptions(): MessageProcessor and the classes that derive
\* from it in this package define no such attribute; the lookup raises.
serializer_exceptions == [exc |-> "AttributeError", value |-> {}]

\* the two except clauses of the loop exchanged
RECURSIVE DispatchSwapped(_, _)
DispatchSwapped(i, message) ==
    IF i > Len(LAYERS) THEN unknown_message(message)
    ELSE UNION {IF r.exc = "NobodyCanHandle"
                THEN After(r, DispatchSwapped(i + 1, message))
                ELSE IF r.exc = "ICannotHandle"
                THEN After(r, unknown_message(message))
                ELSE {r} :
                   r \in process_message(i, LAYERS[i], message)}

\* the loop without its `return`
RECURSIVE DispatchNoReturn(_, _)
DispatchNoReturn(i, message) ==
    IF i > Len(LAYERS) THEN unknown_message(message)
    ELSE UNION {IF r.exc \in {NoExc, "ICannotHandle"}
                THEN After(r, DispatchNoReturn(i + 1, message))
                ELSE IF r.exc = "NobodyCanHandle"
                THEN After(r, unknown_message(message))
                ELSE {r} :
                   r \in process_message(i, LAYERS[i], message)}

\* for layer in self.LAYERS: ... ; self._unknown_message(message)
RECURSIVE Dispatch(_, _)
Dispatch(i, message) ==
    IF i > Len(LAYERS) THEN unknown_message(message)
    ELSE UNION {IF r.exc = "ICannotHandle"
                THEN After(r, Dispatch(i + 1, message))
                ELSE IF r.exc = "NobodyCanHandle"
                THEN After(r, unknown_message(message))
                ELSE {r} :
                   r \in process_message(i, LAYERS[i], message)}

\* _conn_message without its `except self.CloseConnection` clause
conn_message_no_close_clause(data, binary) ==
    LET body ==
          UNION {LET e == [E0 EXCEPT !.op = "_trans_parse", !.err = p.exc,
                                     !.reason = p.errcode,
                                     !.ns = p.message.ns, !.cmd = p.message.cmd]
                 IN  IF p.exc # NoExc THEN {Raise(<<e>>, p.exc)}
                     ELSE Prefix(e, Dispatch(1, p.message)) :
                    p \in trans_parse(data, binary)}
    IN  UNION {IF r.exc = NoExc THEN {r}
               ELSE IF serializer_exceptions.exc # NoExc
               THEN {Raise(r.log, serializer_exceptions.exc)}
               ELSE IF r.exc \in serializer_exceptions.value
               THEN After(r, serializer_exception(r.exc))
               ELSE After(r, unknown_exception(r.exc, "_conn_message")) :
                  r \in body}

conn_message(data, binary) ==
    LET body ==
          UNION {LET e == [E0 EXCEPT !.op = "_trans_parse", !.err = p.exc,
                                     !.reason = p.errcode,
                                     !.ns = p.message.ns, !.cmd = p.message.cmd]
                 IN  IF p.exc # NoExc THEN {Raise(<<e>>, p.exc)}
                     ELSE Prefix(e, Dispatch(1, p.message)) :
                    p \in trans_parse(data, binary)}
    IN  UNION {IF r.exc = NoExc THEN {r}
               ELSE IF r.exc = "CloseConnection" THEN After(r, terminate)
               ELSE IF serializer_exceptions.exc # NoExc
               THEN {Raise(r.log, serializer_exceptions.exc)}
               ELSE IF r.exc \in serializer_exceptions.value
               THEN After(r, serializer_exception(r.exc))
               ELSE After(r, unknown_exception(r.exc, "_conn_message")) :
                  r \in body}

----------------------------------------------------------------------------
(* The processor of one connection, driven by the runtime *)

Table(keys, h) == [k \in keys |-> h[k]]

\* Handler tables a layer's __init__ may have built with add_command_handler.
LayerTables ==
    {Table({Key("a", "x")}, [k \in Keys |-> "h1"]),
     Table({Key("a", ANY_COMMAND), Key(ANY_COMMAND, ANY_COMMAND)},
           [k \in Keys |-> IF k = Key(ANY_COMMAND, ANY_COMMAND)
                           THEN "h2" ELSE "h1"])}

\* The translator after the layers were built and the processor type fed it
\* (feed_translator) with the commands a.x and b.y.
Fed == [n \in Namespaces |-> IF n = "a" THEN {"x"} ELSE {"y"}]

----------------------------------------------------------------------------
(* Directions of messages and the sending of a message *)

DIRECTION_CLIENT == 1
DIRECTION_SERVER == 2
DIRECTION_BOTH == 3
Directions == {DIRECTION_CLIENT, DIRECTION_SERVER, DIRECTION_BOTH}

\* direction & MessageFactory.DIRECTION_CLIENT, direction & DIRECTION_SERVER
ClientBound(direction) == direction \in {DIRECTION_CLIENT, DIRECTION_BOTH}
ServerBound(direction) == direction \in {DIRECTION_SERVER, DIRECTION_BOTH}

\* The directions the protocol configuration gives the commands fed to the
\* translator: a.x goes to the server, b.y goes to the client.
ProtocolConfig ==
    [k \in {Key("a", "x"), Key("b", "y")} |->
        IF k = Key("a", "x") THEN DIRECTION_SERVER ELSE DIRECTION_CLIENT]

\* Translator.serialize(message): the token of message.code with the
\* arguments, dumped by the codec of the format
trans_serialize(message) ==
    [E0 EXCEPT !.op = "_trans_serialize", !.ns = message.ns,
               !.cmd = message.cmd]

\* MessageProcessor.send_message(message), the message being of the given
\* direction: serialized and handed to _conn_send with the binary flag of the
\* translator's format
send_message(message, direction) ==
    {Ret(<<trans_serialize(message),
           [E0 EXCEPT !.op = "_conn_send", !.ns = message.ns,
                      !.cmd = message.cmd,
                      !.out = IF Format(TRANSLATOR) = "FORMAT_INTEGER"
                              THEN "True" ELSE "False"]>>)}

Call(op, data, binary) ==
    [op |-> op, data |-> data, binary |-> binary, h |-> NoHandler]

Init ==
    /\ strict \in BOOLEAN
    /\ TRANSLATOR \in Translators
    /\ LAYERS \in [1..NumLayers -> LayerTables]
    /\ registry = Fed
    /\ call = Call("__init__", NoData, None)
    /\ events = <<>>
    /\ escaped = NoExc
    /\ closed = FALSE
    /\ closedBefore = FALSE
    /\ tmap = <<>>
    /\ result = None
    /\ timeout = None
    /\ inbox = <<>>
    /\ stack = <<>>
    /\ layerTranslator = <<>>
    /\ legacy = None

\* the delivery of an event when translate() looks a namespace up through
\* namespace(), which registers what it does not find
Deliver_registering(c, r) ==
    /\ call' = c
    /\ events' = r.log
    /\ escaped' = r.exc
    /\ closedBefore' = closed
    /\ closed' = (closed \/ \E i \in 1..Len(r.log) : r.log[i].op = "_conn_close")
    /\ registry' = IF c.data.kind = "map" /\ c.data.hascode
                       /\ c.data.ns \notin DOMAIN registry
                    THEN [n \in DOMAIN registry \cup {c.data.ns} |->
                             IF n \in DOMAIN registry THEN registry[n] ELSE {}]
                    ELSE registry
    /\ UNCHANGED <<strict, TRANSLATOR, LAYERS, tmap, result, timeout,
                   inbox, stack, layerTranslator,
                   legacy>>

Deliver(c, r) ==
    /\ call' = c
    /\ events' = r.log
    /\ escaped' = r.exc
    /\ closedBefore' = closed
    /\ closed' = (closed \/ \E i \in 1..Len(r.log) : r.log[i].op = "_conn_close")
    /\ UNCHANGED <<strict, TRANSLATOR, LAYERS, registry, tmap, result,
                   timeout,
                   inbox, stack, layerTranslator,
                   legacy>>

\* the runtime reports the connection as open
ConnMade ==
    \E r \in conn_made : Deliver(Call("_conn_made", NoData, None), r)

\* the runtime delivers a frame
ConnMessage ==
    \E data \in Data \cup {Opaque}, binary \in Binary :
        /\ (data = Opaque) <=> (TRANSLATOR = "UserTranslator")
        /\ \E r \in conn_message(data, binary) :
               Deliver(Call("_conn_message", data, binary), r)

\* terminate() called from outside message processing
Terminate ==
    \E r \in terminate : Deliver(Call("terminate", NoData, None), r)

\* the application sends a message of its protocol to the client
SendMessage ==
    \E k \in DOMAIN ProtocolConfig, direction \in Directions :
        \E r \in send_message(Message(k[1], k[2]), direction) :
            Deliver([op |-> "send_message",
                     data |-> Payload("message", TRUE, k[1], k[2], "", ""),
                     binary |-> None, h |-> NoHandler,
                     direction |-> direction], r)

Next == ConnMade \/ ConnMessage \/ Terminate \/ SendMessage

Spec == Init /\ [][Next]_vars

----------------------------------------------------------------------------
(* One protocol layer: construction, then messages handed to it *)

InitLayer ==
    /\ strict = FALSE
    /\ TRANSLATOR = "JSONTranslator"
    /\ LAYERS = <<Table({}, [k \in Keys |-> "h1"])>>
    /\ registry = [n \in {} |-> {}]
    /\ call = Call("__init__", NoData, None)
    /\ events = <<>>
    /\ escaped = NoExc
    /\ closed = FALSE
    /\ closedBefore = FALSE
    /\ tmap = <<>>
    /\ result = None
    /\ timeout = None
    /\ inbox = <<>>
    /\ stack = <<>>
    /\ layerTranslator = <<>>
    /\ legacy = None

\* the layer's __init__ registers a handler
AddCommandHandler ==
    \E ns \in Namespaces \cup {ANY_COMMAND}, cmd \in Codes \cup {ANY_COMMAND},
       h \in Handlers \cup {NoHandler} :
        LET r == add_command_handler(LAYERS[1], registry, ns, cmd, h)
        IN  /\ Cardinality(DOMAIN r.table) <= MaxHandlers
            /\ LAYERS' = <<r.table>>
            /\ registry' = r.reg
            /\ call' = [op |-> "add_command_handler",
                        data |-> Payload("", FALSE, ns, cmd, "", ""),
                        binary |-> None, h |-> h]
            /\ events' = <<>>
            /\ escaped' = r.exc
            /\ UNCHANGED <<strict, TRANSLATOR, closed, closedBefore, tmap,
                           result, timeout,
                   inbox, stack, layerTranslator,
                   legacy>>

\* the processor hands the layer a parsed message
ProcessMessage ==
    \E ns \in Namespaces, cmd \in Codes :
        \E r \in process_message(1, LAYERS[1], Message(ns, cmd)) :
            /\ call' = [op |-> "process_message",
                        data |-> Payload("", FALSE, ns, cmd, "", ""),
                        binary |-> None, h |-> NoHandler]
            /\ events' = r.log
            /\ escaped' = r.exc
            /\ UNCHANGED <<strict, TRANSLATOR, LAYERS, registry, closed,
                           closedBefore, tmap, result, timeout,
                   inbox, stack, layerTranslator,
                   legacy>>

NextLayer == AddCommandHandler \/ ProcessMessage

SpecLayer == InitLayer /\ [][NextLayer]_vars

----------------------------------------------------------------------------
(* formats.py: commands on the wire.  A string is the sequence of its
   characters; an integer command has two halves of WordBits bits. *)

Word == 2 ^ WordBits
Dot == "."

Returned(value) == [exc |-> NoExc, value |-> value]
Raised(exc) == [exc |-> exc, value |-> None]

HasDot(string) == \E i \in 1..Len(string) : string[i] = Dot
LastDot(string) ==
    CHOOSE i \in 1..Len(string) :
        string[i] = Dot /\ \A j \in (i + 1)..Len(string) : string[j] # Dot
FirstDot(string) ==
    CHOOSE i \in 1..Len(string) :
        string[i] = Dot /\ \A j \in 1..(i - 1) : string[j] # Dot

\* the string split at its first dot: command.split('.', 1)
split_string_command_first_dot(command) ==
    IF ~HasDot(command) THEN Raised("ValueError")
    ELSE Returned(<<SubSeq(command, 1, FirstDot(command) - 1),
                    SubSeq(command, FirstDot(command) + 1, Len(command))>>)

\* command.rpartition('.'): a string without a dot taken for a bare code
split_string_command_rpartition(command) ==
    IF ~HasDot(command) THEN Returned(<<<<>>, command>>)
    ELSE Returned(<<SubSeq(command, 1, LastDot(command) - 1),
                    SubSeq(command, LastDot(command) + 1, Len(command))>>)

\* command.rsplit('.', 1): ValueError when the string has no dot
split_string_command(command) ==
    IF ~HasDot(command) THEN Raised("ValueError")
    ELSE Returned(<<SubSeq(command, 1, LastDot(command) - 1),
                    SubSeq(command, LastDot(command) + 1, Len(command))>>)

\* (command >> 32) & _32bits, command & _32bits, of a command that is not
\* negative
split_integer_command(command) ==
    Returned(<<(command \div Word) % Word, command % Word>>)

\* "%s.%s" % (ns, code)
join_string_command(ns, code) == ns \o <<Dot>> \o code

\* the two halves exchanged
join_integer_command_swapped(ns, code) == (code % Word) * Word + (ns % Word)

\* ((ns & _32bits) << 32) | code & _32bits
join_integer_command(ns, code) == (ns % Word) * Word + (code % Word)

split(format, command) ==
    IF format = "FORMAT_STRING" THEN split_string_command(command)
    ELSE split_integer_command(command)

join(format, ns, code) ==
    IF format = "FORMAT_STRING" THEN join_string_command(ns, code)
    ELSE join_integer_command(ns, code)

CommandSpec(string, integer) == [string |-> string, integer |-> integer]

\* spec[self.value]: FORMAT_STRING is 0, FORMAT_INTEGER is 1
spec_value(format, spec) ==
    IF format = "FORMAT_STRING" THEN spec.string ELSE spec.integer

\* ANY_COMMAND = CommandSpec(0xFFFFFFFF, '__any__'): its string member is a
\* number and its integer member a name, so that no name and no half of an
\* integer command equals either of them.
ANY_COMMAND_SPEC == CommandSpec(<<"0xFFFFFFFF">>, -1)

\* _cannot_add_any_or_unknown(command): the exception it raises
cannot_add_any_or_unknown(command) ==
    IF command = ANY_COMMAND_SPEC THEN "ValueError" ELSE NoExc

\* CommandNamespaceMap.__new__(cls, translator, ns_spec)
CommandNamespaceMap(translator, ns_spec) ==
    [spec |-> ns_spec, translator |-> translator, map |-> <<>>]

\* the check of the command left out of namespace()
Translator_namespace_unchecked(format, map, spec) ==
    [exc |-> NoExc,
     map |-> IF spec_value(format, spec) \in DOMAIN map THEN map
             ELSE [k \in DOMAIN map \cup {spec_value(format, spec)} |->
                      IF k = spec_value(format, spec)
                      THEN CommandNamespaceMap("Translator", spec)
                      ELSE map[k]]]

\* namespace() storing a new entry whatever the map holds
Translator_namespace_overwriting(format, map, spec) ==
    IF cannot_add_any_or_unknown(spec) # NoExc
    THEN [exc |-> cannot_add_any_or_unknown(spec), map |-> map]
    ELSE [exc |-> NoExc,
          map |-> [k \in DOMAIN map \cup {spec_value(format, spec)} |->
                      IF k = spec_value(format, spec)
                      THEN CommandNamespaceMap("Translator", spec)
                      ELSE map[k]]]

\* Translator.namespace(spec): the exception it raises and the map it leaves;
\* self.__map.setdefault(spec_value(spec), CommandNamespaceMap(self, spec))
Translator_namespace(format, map, spec) ==
    IF cannot_add_any_or_unknown(spec) # NoExc
    THEN [exc |-> cannot_add_any_or_unknown(spec), map |-> map]
    ELSE [exc |-> NoExc,
          map |-> IF spec_value(format, spec) \in DOMAIN map THEN map
                  ELSE [k \in DOMAIN map \cup {spec_value(format, spec)} |->
                           IF k = spec_value(format, spec)
                           THEN CommandNamespaceMap("Translator", spec)
                           ELSE map[k]]]

\* CommandNamespaceMap.add_command(spec) on one entry of the map: the
\* exception it raises and the entry it leaves;
\* self.map[spec_value(spec)] = spec
CommandNamespaceMap_add_command(format, entry, spec) ==
    IF entry.translator = None
    THEN [exc |-> "ValueError", entry |-> entry]
    ELSE IF cannot_add_any_or_unknown(spec) # NoExc
    THEN [exc |-> cannot_add_any_or_unknown(spec), entry |-> entry]
    ELSE [exc |-> NoExc,
          entry |-> [entry EXCEPT !.map =
                       [c \in DOMAIN entry.map \cup {spec_value(format, spec)}
                          |-> IF c = spec_value(format, spec) THEN spec
                              ELSE entry.map[c]]]]

\* namespace(ns).add_command(code) as feed_translator and add_command_handler
\* chain them
namespace_add_command(format, map, ns, code) ==
    LET n == Translator_namespace(format, map, ns)
        key == spec_value(format, ns)
        c == CommandNamespaceMap_add_command(format, n.map[key], code)
    IN  IF n.exc # NoExc THEN n
        ELSE [exc |-> c.exc, map |-> [n.map EXCEPT ![key] = c.entry]]

\* feed_translator(namespace, code): ANY_COMMAND is never fed
feed_translator(format, map, ns, code) ==
    IF ns = ANY_COMMAND_SPEC THEN [exc |-> NoExc, map |-> map]
    ELSE IF code = ANY_COMMAND_SPEC THEN Translator_namespace(format, map, ns)
    ELSE namespace_add_command(format, map, ns, code)

\* add_command_handler storing the handler and feeding nothing
ProtocolLayer_add_command_handler_no_feed(format, table, map, ns, cmd, h) ==
    IF h = NoHandler
    THEN [exc |-> "TypeError", table |-> table, map |-> map]
    ELSE IF ns = ANY_COMMAND_SPEC /\ cmd # ANY_COMMAND_SPEC
    THEN [exc |-> "ValueError", table |-> table, map |-> map]
    ELSE [exc |-> NoExc,
          table |-> [k \in DOMAIN table \cup {<<ns, cmd>>} |->
                        IF k = <<ns, cmd>> THEN h ELSE table[k]],
          map |-> map]

\* ProtocolLayer.add_command_handler(namespace, command, handler): the
\* exception it raises, and the handler table and translator map it leaves
ProtocolLayer_add_command_handler(format, table, map, ns, cmd, h) ==
    IF h = NoHandler
    THEN [exc |-> "TypeError", table |-> table, map |-> map]
    ELSE IF ns = ANY_COMMAND_SPEC /\ cmd # ANY_COMMAND_SPEC
    THEN [exc |-> "ValueError", table |-> table, map |-> map]
    ELSE LET t == feed_translator(format, map, ns, cmd)
         IN  [exc |-> t.exc,
              table |-> IF t.exc # NoExc THEN table
                        ELSE [k \in DOMAIN table \cup {<<ns, cmd>>} |->
                                 IF k = <<ns, cmd>> THEN h ELSE table[k]],
              map |-> t.map]

\* Translator.translate(full_command): KeyError when the namespace is unknown
\* (UNKNOWN_NAMESPACE_MAP has no codes) or the code is
Translator_translate(format, map, full_command) ==
    LET parts == split(format, full_command)
    IN  IF parts.exc # NoExc THEN Raised(parts.exc)
        ELSE IF parts.value[1] \notin DOMAIN map THEN Raised("KeyError")
        ELSE IF parts.value[2] \notin DOMAIN map[parts.value[1]].map
        THEN Raised("KeyError")
        ELSE Returned(<<map[parts.value[1]].spec,
                        map[parts.value[1]].map[parts.value[2]]>>)

\* Translator.untranslate(namespace, code)
Translator_untranslate(format, ns, code) ==
    join(format, spec_value(format, ns), spec_value(format, code))

\* The command specs of the protocol: a.b has a dotted name, c an integer
\* that does not fit a half.
Specs ==
    {CommandSpec(<<"a">>, 1), CommandSpec(<<"b">>, Word - 1),
     CommandSpec(<<"a", Dot, "b">>, 2), CommandSpec(<<"c">>, Word + 1)}

\* what may come as the code of an envelope
Tokens ==
    {Translator_untranslate(Format(TRANSLATOR), ns, code) :
        ns \in Specs, code \in Specs}
    \cup (IF Format(TRANSLATOR) = "FORMAT_STRING" THEN {<<"a">>} ELSE {0})

NumCommands(map) ==
    LET RECURSIVE Sum(_)
        Sum(K) == IF K = {} THEN 0
                  ELSE LET k == CHOOSE x \in K : TRUE
                       IN  Cardinality(DOMAIN map[k].map) + Sum(K \ {k})
    IN  Sum(DOMAIN map)

TCall(op, token, ns, code) ==
    [ns |-> ns, op |-> op, code |-> code, token |-> token]

InitTranslator ==
    /\ strict = FALSE
    /\ TRANSLATOR \in {"JSONTranslator", "MsgPackTranslator"}
    /\ LAYERS = <<>>
    /\ registry = [n \in {} |-> {}]
    /\ call = TCall("__init__", None, None, None)
    /\ events = <<>>
    /\ escaped = NoExc
    /\ closed = FALSE
    /\ closedBefore = FALSE
    /\ tmap = <<>>
    /\ result = None
    /\ timeout = None
    /\ inbox = <<>>
    /\ stack = <<>>
    /\ layerTranslator = <<>>
    /\ legacy = None

\* a layer or the processor type registers a command
FeedTranslator ==
    \E ns \in Specs, code \in Specs :
        LET fed == feed_translator(Format(TRANSLATOR), tmap, ns, code)
        IN  /\ NumCommands(fed.map) <= MaxCommands
            /\ tmap' = fed.map
            /\ call' = TCall("feed_translator", None, ns, code)
            /\ result' = None
            /\ escaped' = NoExc
            /\ UNCHANGED <<strict, TRANSLATOR, LAYERS, registry, events,
                           closed, closedBefore, timeout,
                   inbox, stack, layerTranslator,
                   legacy>>

\* the code of an incoming envelope is resolved
Translate ==
    \E token \in Tokens :
        LET r == Translator_translate(Format(TRANSLATOR), tmap, token)
        IN  /\ call' = TCall("translate", token, None, None)
            /\ result' = r.value
            /\ escaped' = r.exc
            /\ UNCHANGED <<strict, TRANSLATOR, LAYERS, registry, events,
                           closed, closedBefore, tmap, timeout,
                   inbox, stack, layerTranslator,
                   legacy>>

\* the code of an outgoing message is put on the wire
Untranslate ==
    \E ns \in Specs, code \in Specs :
        /\ call' = TCall("untranslate", None, ns, code)
        /\ result' = Translator_untranslate(Format(TRANSLATOR), ns, code)
        /\ escaped' = NoExc
        /\ UNCHANGED <<strict, TRANSLATOR, LAYERS, registry, events,
                       closed, closedBefore, tmap, timeout,
                   inbox, stack, layerTranslator,
                   legacy>>

\* a message of the application: message.code is (ns, code)
AppMessage(ns, code, args, kwargs) ==
    [ns |-> ns, code |-> code, args |-> args, kwargs |-> kwargs]

\* Translator.serialize(message): the map handed to the codec's dumps()
Translator_serialize(format, message) ==
    [code |-> Translator_untranslate(format, message.ns, message.code),
     args |-> message.args, kwargs |-> message.kwargs]

\* Translator.parse_data(data) from the map the codec's loads() returned,
\* no framing being asked for
Translator_parse_data(format, map, data) ==
    LET test == code_not_in_dict([hascode |-> "code" \in DOMAIN data])
        t == Translator_translate(format, map, data.code)
    IN  IF test.exc # NoExc THEN Raised(test.exc)
        ELSE IF test.value THEN Raised("EXPECTED_MAP_WITH_CODE")
        ELSE IF t.exc = "KeyError" THEN Raised("UNKNOWN_COMMAND")
        ELSE IF t.exc # NoExc THEN Raised(t.exc)
        ELSE Returned(AppMessage(t.value[1], t.value[2],
                                 IF "args" \in DOMAIN data THEN data.args
                                 ELSE <<>>,
                                 IF "kwargs" \in DOMAIN data THEN data.kwargs
                                 ELSE <<>>))

\* a message of a registered command is serialized, and what was serialized
\* is parsed again
Serialize ==
    \E ns \in Specs, code \in Specs, args \in {<<>>, <<1>>},
       kwargs \in {<<>>, <<<<"k", 1>>>>} :
        /\ spec_value(Format(TRANSLATOR), ns) \in DOMAIN tmap
        /\ spec_value(Format(TRANSLATOR), code)
              \in DOMAIN tmap[spec_value(Format(TRANSLATOR), ns)].map
        /\ LET message == AppMessage(ns, code, args, kwargs)
               data == Translator_serialize(Format(TRANSLATOR), message)
           IN  /\ call' = TCall("serialize", None, ns, code)
               /\ result' = [message |-> message, data |-> data,
                             parsed |-> Translator_parse_data(
                                           Format(TRANSLATOR), tmap, data)]
               /\ escaped' = NoExc
        /\ UNCHANGED <<strict, TRANSLATOR, LAYERS, registry, events,
                       closed, closedBefore, tmap, timeout, inbox, stack,
                       layerTranslator,
                   legacy>>

NextTranslator == FeedTranslator \/ Translate \/ Untranslate \/ Serialize

SpecTranslator == InitTranslator /\ [][NextTranslator]_vars

----------------------------------------------------------------------------
(* Registration: a translator and one layer being fed *)

\* what a layer or an application may pass as a namespace or a command: two
\* specs of different names and the same number, and ANY_COMMAND
RegSpecs ==
    {CommandSpec(<<"a">>, 1), CommandSpec(<<"b">>, 1), ANY_COMMAND_SPEC}

\* no command spec given
NoSpec == CommandSpec(<<>>, 0)

RCall(op, ns, code, h) == [ns |-> ns, op |-> op, h |-> h, code |-> code]

InitRegistry ==
    /\ strict = FALSE
    /\ TRANSLATOR \in {"JSONTranslator", "MsgPackTranslator"}
    /\ LAYERS = <<<<>>>>
    /\ registry = [n \in {} |-> {}]
    /\ call = RCall("__init__", NoSpec, NoSpec, NoHandler)
    /\ events = <<>>
    /\ escaped = NoExc
    /\ closed = FALSE
    /\ closedBefore = FALSE
    /\ tmap = <<>>
    /\ result = None
    /\ timeout = None
    /\ inbox = <<>>
    /\ stack = <<>>
    /\ layerTranslator = <<>>
    /\ legacy = None

Registered(c, exc, table, map) ==
    /\ NumCommands(map) <= MaxCommands
    /\ Cardinality(DOMAIN map) <= MaxCommands
    /\ Cardinality(DOMAIN table) <= MaxHandlers
    /\ call' = c
    /\ escaped' = exc
    /\ LAYERS' = <<table>>
    /\ tmap' = map
    /\ UNCHANGED <<strict, TRANSLATOR, registry, events, closed, closedBefore,
                   result, timeout,
                   inbox, stack, layerTranslator,
                   legacy>>

\* translator.namespace(spec)
Namespace ==
    \E spec \in RegSpecs :
        LET r == Translator_namespace(Format(TRANSLATOR), tmap, spec)
        IN  Registered(RCall("namespace", spec, NoSpec, NoHandler),
                       r.exc, LAYERS[1], r.map)

\* add_command(spec) on a namespace map that namespace() returned
AddCommand ==
    \E ns \in RegSpecs, spec \in RegSpecs :
        /\ spec_value(Format(TRANSLATOR), ns) \in DOMAIN tmap
        /\ LET key == spec_value(Format(TRANSLATOR), ns)
               r == CommandNamespaceMap_add_command(Format(TRANSLATOR),
                                                    tmap[key], spec)
           IN  Registered(RCall("add_command", tmap[key].spec, spec, NoHandler),
                          r.exc, LAYERS[1], [tmap EXCEPT ![key] = r.entry])

\* layer.add_command_handler(namespace, command, handler)
LayerAddCommandHandler ==
    \E ns \in RegSpecs, cmd \in RegSpecs, h \in {"h1", NoHandler} :
        LET r == ProtocolLayer_add_command_handler(Format(TRANSLATOR),
                                                   LAYERS[1], tmap, ns, cmd, h)
        IN  Registered(RCall("add_command_handler", ns, cmd, h),
                       r.exc, r.table, r.map)

NextRegistry == Namespace \/ AddCommand \/ LayerAddCommandHandler

SpecRegistry == InitRegistry /\ [][NextRegistry]_vars

----------------------------------------------------------------------------
(* formats.py: the splitters and joiners applied to raw values *)

Strings ==
    {<<>>, <<"a">>, <<"b">>, <<"a", "b">>, <<"a", Dot, "b">>, <<Dot, "a">>}
Halves == 0..(2 * Word - 1)

InitCommand ==
    /\ strict = FALSE
    /\ TRANSLATOR = "JSONTranslator"
    /\ LAYERS = <<>>
    /\ registry = [n \in {} |-> {}]
    /\ call = TCall("__init__", None, None, None)
    /\ events = <<>>
    /\ escaped = NoExc
    /\ closed = FALSE
    /\ closedBefore = FALSE
    /\ tmap = <<>>
    /\ result = None
    /\ timeout = None
    /\ inbox = <<>>
    /\ stack = <<>>
    /\ layerTranslator = <<>>
    /\ legacy = None

Applied(c, r) ==
    /\ call' = c
    /\ result' = r.value
    /\ escaped' = r.exc
    /\ UNCHANGED <<strict, TRANSLATOR, LAYERS, registry, events, closed,
                   closedBefore, tmap, timeout,
                   inbox, stack, layerTranslator,
                   legacy>>

\* _split_string_command(_join_string_command(ns, code))
SplitJoinString ==
    \E ns \in Strings, code \in Strings :
        Applied(TCall("split_join_string", join_string_command(ns, code),
                      ns, code),
                split_string_command(join_string_command(ns, code)))

\* _split_string_command(token)
SplitString ==
    \E token \in Strings :
        Applied(TCall("split_string", token, None, None),
                split_string_command(token))

\* _split_integer_command(_join_integer_command(ns, code))
SplitJoinInteger ==
    \E ns \in Halves, code \in Halves :
        Applied(TCall("split_join_integer", join_integer_command(ns, code),
                      ns, code),
                split_integer_command(join_integer_command(ns, code)))

\* _split_integer_command(token)
SplitInteger ==
    \E token \in 0..(2 * Word * Word - 1) :
        Applied(TCall("split_integer", token, None, None),
                split_integer_command(token))

NextCommand ==
    SplitJoinString \/ SplitString \/ SplitJoinInteger \/ SplitInteger

SpecCommand == InitCommand /\ [][NextCommand]_vars

----------------------------------------------------------------------------
(* task/timed.py: Timeout and its backend timer *)

DefaultSeconds == 15
Backends == {"TornadoTimeout", "TwistedTimeout", "ThreadedTimeout"}

\* Timeout.__init__(seconds, on_reach) of one of the three classes: reached is
\* __reached ("None", "False" while running, "True"), callable tells whether
\* on_reach was callable, timer is the state of the backend's handle.  Two
\* fields record history: reaches counts the calls of on_reach since the last
\* start(), stopped tells that force_stop() or reset() returned since then.
\* numeric is isinstance(seconds, integer_types + (float,)).
Timeout(backend, seconds, numeric, callable) ==
    [backend |-> backend, callable |-> callable,
     time |-> IF numeric THEN seconds ELSE DefaultSeconds,
     reached |-> "None", timer |-> "none", reaches |-> 0, stopped |-> FALSE]

TimeoutResult(log, exc, t) == [log |-> log, exc |-> exc, t |-> t]

\* _unset(): cancels the handle; whatever the cancelling raises is swallowed
\* and leaves a pending handle pending
unset(t) ==
    IF t.timer = "pending" THEN {[t EXCEPT !.timer = "cancelled"], t} ELSE {t}

\* self.__on_reach(self, forced): the user's callback, or `lambda o: None`
\* when what was given is not callable
on_reach(t, forced) ==
    LET e == [E0 EXCEPT !.op = "on_reach",
                        !.out = IF forced THEN "True" ELSE "False",
                        !.ctx = t.reached]
    IN  IF t.callable THEN {Ret(<<e>>), Raise(<<e>>, "Exception")}
        ELSE {Raise(<<e>>, "TypeError")}

\* _reach without its test of __reached
reach_unguarded(t, forced) ==
    {TimeoutResult(<<[E0 EXCEPT !.op = "_unset"]>> \o r.log, r.exc,
                   [u EXCEPT !.reached = "True", !.reaches = @ + 1]) :
        u \in unset(t), r \in on_reach(t, forced)}

\* Timeout._reach(forced): the body runs when __reached is not False
reach(t, forced) ==
    IF t.reached # "False"
    THEN {TimeoutResult(<<[E0 EXCEPT !.op = "_unset"]>> \o r.log, r.exc,
                        [u EXCEPT !.reached = "True", !.reaches = @ + 1]) :
             u \in unset(t), r \in on_reach(t, forced)}
    ELSE {TimeoutResult(<<>>, NoExc, t)}

\* start() without its test of __reached
start_unguarded(t) ==
    LET armed == [t EXCEPT !.reached = "False", !.reaches = 0,
                           !.stopped = FALSE]
        e == [E0 EXCEPT !.op = "_set", !.code = t.time]
    IN  {TimeoutResult(<<e>>, NoExc, [armed EXCEPT !.timer = "pending"]),
         TimeoutResult(<<e>>, "COULDNT_RUN", armed)}

\* Timeout.start(): _set either arms the backend's timer or raises
\* COULDNT_RUN, __reached being False already
start(t) ==
    IF t.reached = "False" THEN {TimeoutResult(<<>>, "ALREADY_RUNNING", t)}
    ELSE LET armed == [t EXCEPT !.reached = "False", !.reaches = 0,
                                !.stopped = FALSE]
             e == [E0 EXCEPT !.op = "_set", !.code = t.time]
         IN  {TimeoutResult(<<e>>, NoExc, [armed EXCEPT !.timer = "pending"]),
              TimeoutResult(<<e>>, "COULDNT_RUN", armed)}

\* Timeout.force_stop()
force_stop(t) ==
    IF t.reached # "False" THEN {TimeoutResult(<<>>, "NOT_RUNNING", t)}
    ELSE {TimeoutResult(r.log, r.exc,
                        [r.t EXCEPT !.stopped = (r.exc = NoExc) \/ @]) :
             r \in reach(t, TRUE)}

\* Timeout.reset()
reset(t) ==
    IF t.reached = "False" THEN {TimeoutResult(<<>>, "STILL_RUNNING", t)}
    ELSE {TimeoutResult(<<>>, NoExc,
                        [t EXCEPT !.reached = "None", !.stopped = TRUE])}

InitTimeout ==
    /\ strict = FALSE
    /\ TRANSLATOR = "JSONTranslator"
    /\ LAYERS = <<>>
    /\ registry = [n \in {} |-> {}]
    /\ call = TCall("__init__", None, None, None)
    /\ events = <<>>
    /\ escaped = NoExc
    /\ closed = FALSE
    /\ closedBefore = FALSE
    /\ tmap = <<>>
    /\ result = None
    /\ timeout \in {Timeout(b, s, n, c) :
                       b \in Backends, s \in {1, 2}, n \in BOOLEAN,
                       c \in BOOLEAN}
    /\ inbox = <<>>
    /\ stack = <<>>
    /\ layerTranslator = <<>>
    /\ legacy = None

Timed(op, r) ==
    /\ call' = TCall(op, None, None, None)
    /\ events' = r.log
    /\ escaped' = r.exc
    /\ timeout' = r.t
    /\ UNCHANGED <<strict, TRANSLATOR, LAYERS, registry, closed, closedBefore,
                   tmap, result, inbox, stack, layerTranslator,
                   legacy>>

\* start_timeout(), or start() on a timeout made before
Start == \E r \in start(timeout) : Timed("start", r)

\* stop_timeout(timeout)
ForceStop == \E r \in force_stop(timeout) : Timed("force_stop", r)

Reset == \E r \in reset(timeout) : Timed("reset", r)

\* the backend runs the callback given to _set: lambda: self._reach(False).
\* The Timer of the threaded backend is created and never started.
Expire ==
    /\ timeout.timer = "pending"
    /\ timeout.backend # "ThreadedTimeout"
    /\ \E r \in reach([timeout EXCEPT !.timer = "fired"], FALSE) :
           Timed("expire", r)

NextTimeout == Start \/ ForceStop \/ Reset \/ Expire

SpecTimeout == InitTimeout /\ [][NextTimeout]_vars

----------------------------------------------------------------------------
(* The runtime's loop: frames received, on_message entered, handling run *)

MaxFrames == 2

Frame(data, binary) == [data |-> data, binary |-> binary]

\* One call of _conn_message that has not returned: what is left to run of
\* it, and the exception it will leave with.
Activation(frame, r) ==
    [data |-> frame.data, binary |-> frame.binary, log |-> r.log,
     exc |-> r.exc]

\* A processor type whose layers hold, in turn, the exact handler of a.x and
\* the catch-all handlers.
InitLoop ==
    /\ strict \in BOOLEAN
    /\ TRANSLATOR \in Translators
    /\ LAYERS \in {l \in [1..NumLayers -> LayerTables] :
                     \A i \in 1..NumLayers :
                         (Key("a", "x") \in DOMAIN l[i]) <=> (i % 2 = 1)}
    /\ registry = Fed
    /\ call = Call("__init__", NoData, None)
    /\ events = <<>>
    /\ escaped = NoExc
    /\ closed = FALSE
    /\ closedBefore = FALSE
    /\ tmap = <<>>
    /\ result = None
    /\ timeout = None
    /\ inbox = <<>>
    /\ stack = <<>>
    /\ layerTranslator = <<>>
    /\ legacy = None

\* the socket receives a frame; the runtime keeps it until its loop is free
Receive ==
    /\ Len(inbox) < MaxFrames
    /\ \E data \in {Envelope(TRUE, "a", "x"), Opaque},
          binary \in {None, "False"} :
           /\ (data = Opaque) <=> (TRANSLATOR = "UserTranslator")
           /\ inbox' = Append(inbox, Frame(data, binary))
    /\ UNCHANGED <<strict, TRANSLATOR, LAYERS, registry, call, events, escaped,
                   closed, closedBefore, tmap, result, timeout, stack,
                   layerTranslator,
                   legacy>>

\* on_message entered from a second thread of control, whatever is running
on_message_reentrant ==
    /\ inbox # <<>>
    /\ Len(stack) < MaxFrames
    /\ \E r \in conn_message(Head(inbox).data, Head(inbox).binary) :
           stack' = <<Activation(Head(inbox), r)>> \o stack
    /\ inbox' = Tail(inbox)
    /\ call' = Call("_conn_message", Head(inbox).data, Head(inbox).binary)
    /\ events' = <<>>
    /\ escaped' = NoExc
    /\ closedBefore' = closed
    /\ UNCHANGED <<strict, TRANSLATOR, LAYERS, registry, closed, tmap, result,
                   timeout, layerTranslator,
                   legacy>>

\* MessageHandler.on_message / MessageProtocol.onMessage / dataReceived: the
\* loop of the runtime (IOLoop, reactor) calls it for the next frame when the
\* callback it ran before has returned, and the call of _conn_message is a
\* plain call, which returns when the handling is over.
on_message ==
    /\ inbox # <<>>
    /\ stack = <<>>
    /\ layerTranslator = <<>>
    /\ legacy = None
    /\ \E r \in conn_message(Head(inbox).data, Head(inbox).binary) :
           stack' = <<Activation(Head(inbox), r)>> \o stack
    /\ inbox' = Tail(inbox)
    /\ call' = Call("_conn_message", Head(inbox).data, Head(inbox).binary)
    /\ events' = <<>>
    /\ escaped' = NoExc
    /\ closedBefore' = closed
    /\ UNCHANGED <<strict, TRANSLATOR, LAYERS, registry, closed, tmap, result,
                   timeout, layerTranslator,
                   legacy>>

\* the activation on top of the stack makes its next call
Step ==
    /\ stack # <<>>
    /\ Head(stack).log # <<>>
    /\ events' = Append(events, Head(Head(stack).log))
    /\ closed' = (closed \/ Head(Head(stack).log).op = "_conn_close")
    /\ stack' = <<[Head(stack) EXCEPT !.log = Tail(@)]>> \o Tail(stack)
    /\ UNCHANGED <<strict, TRANSLATOR, LAYERS, registry, call, escaped,
                   closedBefore, tmap, result, timeout, inbox,
                   layerTranslator,
                   legacy>>

\* the activation on top of the stack returns or raises
Return ==
    /\ stack # <<>>
    /\ Head(stack).log = <<>>
    /\ escaped' = Head(stack).exc
    /\ stack' = Tail(stack)
    /\ UNCHANGED <<strict, TRANSLATOR, LAYERS, registry, call, events, closed,
                   closedBefore, tmap, result, timeout, inbox,
                   layerTranslator,
                   legacy>>

NextLoop == Receive \/ on_message \/ Step \/ Return

SpecLoop == InitLoop /\ [][NextLoop]_vars

----------------------------------------------------------------------------
(* processor.py: the metaclass builds the layers of a processor type *)

\* what a layer may be handed as its translator: the instance held by the
\* processor type, or the processor type itself
TranslatorInstance == "TRANSLATOR"
ProcessorClass == "cls"

\* create_protocol_layer(layer_class, processor_class): the value that
\* ProtocolLayer.__init__(translator) stores; __handlers starts empty
create_protocol_layer(processor_class) ==
    [handlers |-> <<>>, translator |-> processor_class]

\* add_command_handler on a layer whose translator attribute is that value:
\* a processor type has feed_translator and no attribute `namespace`
layer_add_command_handler(translator, format, table, map, ns, cmd, h) ==
    LET r == ProtocolLayer_add_command_handler(format, table, map, ns, cmd, h)
    IN  IF /\ h # NoHandler
           /\ ns # ANY_COMMAND_SPEC
           /\ translator # TranslatorInstance
        THEN [exc |-> "AttributeError", table |-> table, map |-> map]
        ELSE r

\* cls.TRANSLATOR has been instantiated; no layer has been built yet
InitSetup ==
    /\ strict = FALSE
    /\ TRANSLATOR \in {"JSONTranslator", "MsgPackTranslator"}
    /\ LAYERS = <<>>
    /\ registry = [n \in {} |-> {}]
    /\ call = RCall("__init__", NoSpec, NoSpec, NoHandler)
    /\ events = <<>>
    /\ escaped = NoExc
    /\ closed = FALSE
    /\ closedBefore = FALSE
    /\ tmap = <<>>
    /\ result = None
    /\ timeout = None
    /\ inbox = <<>>
    /\ stack = <<>>
    /\ layerTranslator = <<>>
    /\ legacy = None

Creating == call.op \in {"__init__", "create_protocol_layer",
                         "add_command_handler"}

\* the metaclass instantiates the next class of LAYERS
CreateProtocolLayer ==
    /\ Creating
    /\ escaped = NoExc
    /\ Len(LAYERS) < NumLayers
    /\ LET layer == create_protocol_layer(ProcessorClass)
       IN  /\ LAYERS' = Append(LAYERS, layer.handlers)
           /\ layerTranslator' = Append(layerTranslator, layer.translator)
    /\ call' = RCall("create_protocol_layer", NoSpec, NoSpec, NoHandler)
    /\ UNCHANGED <<strict, TRANSLATOR, registry, events, escaped, closed,
                   closedBefore, tmap, result, timeout, inbox, stack,
                   legacy>>

\* the __init__ of the layer under construction adds a handler; what it
\* raises leaves __init__ and ends the creation of the processor type
InitAddCommandHandler ==
    /\ Creating
    /\ escaped = NoExc
    /\ LAYERS # <<>>
    /\ \E ns \in RegSpecs, cmd \in RegSpecs, h \in Handlers \cup {NoHandler} :
           LET i == Len(LAYERS)
               r == layer_add_command_handler(layerTranslator[i],
                        Format(TRANSLATOR), LAYERS[i], tmap, ns, cmd, h)
           IN  /\ Cardinality(DOMAIN r.table) <= MaxHandlers
               /\ call' = RCall("add_command_handler", ns, cmd, h)
               /\ escaped' = r.exc
               /\ LAYERS' = [LAYERS EXCEPT ![i] = r.table]
               /\ tmap' = r.map
    /\ UNCHANGED <<strict, TRANSLATOR, registry, events, closed, closedBefore,
                   result, timeout, inbox, stack, layerTranslator,
                   legacy>>

\* the metaclass returns: the processor type exists
ClassCreated ==
    /\ Creating
    /\ escaped = NoExc
    /\ call' = RCall("created", NoSpec, NoSpec, NoHandler)
    /\ UNCHANGED <<strict, TRANSLATOR, LAYERS, registry, events, escaped,
                   closed, closedBefore, tmap, result, timeout, inbox, stack,
                   layerTranslator,
                   legacy>>

\* the application feeds the translator of the processor type
Feed ==
    /\ ~Creating
    /\ \E ns \in RegSpecs, code \in RegSpecs :
           LET r == feed_translator(Format(TRANSLATOR), tmap, ns, code)
           IN  /\ NumCommands(r.map) <= MaxCommands
               /\ call' = RCall("feed_translator", ns, code, NoHandler)
               /\ escaped' = r.exc
               /\ tmap' = r.map
    /\ UNCHANGED <<strict, TRANSLATOR, LAYERS, registry, events, closed,
                   closedBefore, result, timeout, inbox, stack,
                   layerTranslator,
                   legacy>>

NextSetup == CreateProtocolLayer \/ InitAddCommandHandler \/ ClassCreated
                \/ Feed

SpecSetup == InitSetup /\ [][NextSetup]_vars

----------------------------------------------------------------------------
(* messaging/__init__.py: the namespace set of the legacy processor type *)

\* opts of MessageNamespaceSet.__init__
DirectionWords == {"server", "client", "both"}
opts(word) ==
    IF word = "server" THEN DIRECTION_SERVER
    ELSE IF word = "client" THEN DIRECTION_CLIENT
    ELSE DIRECTION_BOTH

\* What _protocol_config() may return: the directions of chat.say and
\* chat.said.
ProtocolConfigs ==
    {[n \in {"chat"} |-> c] : c \in [{"say", "said"} -> DirectionWords]}

\* MessageNamespace.register(code, direction, silent) on the factories of one
\* namespace: the exception it raises and the factories it leaves
MessageNamespace_register(messages, code, direction, silent) ==
    IF code \in DOMAIN messages
    THEN [exc |-> IF silent THEN NoExc ELSE "FACTORY_ALREADY_EXISTS",
          messages |-> messages]
    ELSE [exc |-> NoExc,
          messages |-> [c \in DOMAIN messages \cup {code} |->
                           IF c = code THEN direction ELSE messages[c]]]

\* MessageNamespaceSet.__init__(namespaces): messaging.error goes to the
\* client, then every namespace and code of the configuration is registered
\* silently, in some order, with the direction its word names
MessageNamespaceSet(namespaces) ==
    LET RECURSIVE RegisterAll(_, _, _)
        RegisterAll(messages, config, codes) ==
            IF codes = {} THEN messages
            ELSE LET k == CHOOSE c \in codes : TRUE
                 IN  RegisterAll(MessageNamespace_register(
                                     messages, k, opts(config[k]), TRUE).messages,
                                 config, codes \ {k})
        messaging == MessageNamespace_register(<<>>, "error",
                                               DIRECTION_CLIENT, FALSE).messages
    IN  [n \in {"messaging"} \cup DOMAIN namespaces |->
            IF n = "messaging"
            THEN IF n \in DOMAIN namespaces
                 THEN RegisterAll(messaging, namespaces[n],
                                  DOMAIN namespaces[n])
                 ELSE messaging
            ELSE RegisterAll(<<>>, namespaces[n], DOMAIN namespaces[n])]

\* the legacy send_message(ns, code): the factory is looked up and asked for
\* build_message, which MessageFactory does not define (it defines build)
legacy_send_message(ns_set, ns, code) ==
    IF ns \notin DOMAIN ns_set THEN Raise(<<>>, "NAMESPACE_DOES_NOT_EXIST")
    ELSE IF code \notin DOMAIN ns_set[ns]
    THEN Raise(<<>>, "FACTORY_DOES_NOT_EXIST")
    ELSE Raise(<<>>, "AttributeError")

LCall(op, ns, code) == [ns |-> ns, op |-> op, code |-> code]

\* the legacy processor type is defined; no instance has been made
InitLegacy ==
    /\ strict = FALSE
    /\ TRANSLATOR = "JSONTranslator"
    /\ LAYERS = <<>>
    /\ registry = [n \in {} |-> {}]
    /\ call = LCall("__init__", "", "")
    /\ events = <<>>
    /\ escaped = NoExc
    /\ closed = FALSE
    /\ closedBefore = FALSE
    /\ tmap = <<>>
    /\ result = None
    /\ timeout = None
    /\ inbox = <<>>
    /\ stack = <<>>
    /\ layerTranslator = <<>>
    /\ legacy \in {[config |-> c, ns_set |-> <<>>, set_up |-> FALSE] :
                      c \in ProtocolConfigs}

\* MessageProcessor.__init__ of the legacy type: _setup_ns() builds _ns_set
\* for the first instance only
SetupNs ==
    /\ legacy' = IF legacy.set_up THEN legacy
                 ELSE [legacy EXCEPT !.ns_set = MessageNamespaceSet(legacy.config),
                                     !.set_up = TRUE]
    /\ call' = LCall("_setup_ns", "", "")
    /\ events' = <<>>
    /\ escaped' = NoExc
    /\ UNCHANGED <<strict, TRANSLATOR, LAYERS, registry, closed, closedBefore,
                   tmap, result, timeout, inbox, stack, layerTranslator>>

\* an instance sends a message to the client
LegacySendMessage ==
    /\ legacy.set_up
    /\ \E ns \in {"chat", "messaging", "other"},
          code \in {"say", "said", "error", "other"} :
           LET r == legacy_send_message(legacy.ns_set, ns, code)
           IN  /\ call' = LCall("send_message", ns, code)
               /\ events' = r.log
               /\ escaped' = r.exc
    /\ UNCHANGED <<strict, TRANSLATOR, LAYERS, registry, closed, closedBefore,
                   tmap, result, timeout, inbox, stack, layerTranslator,
                   legacy>>

NextLegacy == SetupNs \/ LegacySendMessage

SpecLegacy == InitLegacy /\ [][NextLegacy]_vars

----------------------------------------------------------------------------
(* Properties *)

EvIdx == 1..Len(events)
IsOp(i, op) == i \in EvIdx /\ events[i].op = op
SameMessage(i, j) == events[i].ns = events[j].ns /\ events[i].cmd = events[j].cmd
InConnMessage == call.op = "_conn_message"

C2_Precedence ==
    call.op = "process_message" =>
        LET table == LAYERS[1]
            ns == call.data.ns
            cmd == call.data.cmd
            exact == Key(ns, cmd)
            nsAny == Key(ns, ANY_COMMAND)
            anyAny == Key(ANY_COMMAND, ANY_COMMAND)
        IN  /\ Len(events) = 1
            /\ events[1].op = "process_message"
            /\ events[1].ns = ns /\ events[1].cmd = cmd
            /\ exact \in DOMAIN table => events[1].h = table[exact]
            /\ (exact \notin DOMAIN table /\ nsAny \in DOMAIN table) =>
                   events[1].h = table[nsAny]
            /\ ({exact, nsAny} \cap DOMAIN table = {}
                /\ anyAny \in DOMAIN table) => events[1].h = table[anyAny]
            /\ {exact, nsAny, anyAny} \cap DOMAIN table = {} =>
                   /\ events[1].h = NoHandler
                   /\ events[1].out = "ICannotHandle"
                   /\ escaped = "ICannotHandle"
            /\ events[1].h # NoHandler => escaped = Outcome(events[1].out)

C2_Witness ==
    /\ call.op = "process_message"
    /\ {Key(call.data.ns, call.data.cmd), Key(call.data.ns, ANY_COMMAND),
        Key(ANY_COMMAND, ANY_COMMAND)} \subseteq DOMAIN LAYERS[1]
    /\ LAYERS[1][Key(call.data.ns, call.data.cmd)]
         # LAYERS[1][Key(ANY_COMMAND, ANY_COMMAND)]
    /\ Len(events) = 1
    /\ events[1].h = LAYERS[1][Key(call.data.ns, call.data.cmd)]

\* C3: in _conn_message, after a layer's process_message returned normally
\* nothing else is called for the message (no later layer, no
\* _unknown_message), and the k-th layer consulted is the k-th of LAYERS.
C3_FirstSuccessEnds ==
    InConnMessage =>
        /\ \A i \in EvIdx :
               (IsOp(i, "process_message") /\ events[i].out = "ok") =>
                   /\ i = Len(events)
                   /\ \A j \in EvIdx : ~IsOp(j, "_unknown_message")
        /\ \A i \in EvIdx :
               IsOp(i, "process_message") =>
                   /\ i >= 2
                   /\ events[i].layer = i - 1
                   /\ events[i].layer \in 1..Len(LAYERS)

C3_Witness ==
    /\ InConnMessage
    /\ Len(events) = 2
    /\ IsOp(2, "process_message")
    /\ events[2].layer = 1 /\ events[2].out = "ok"
    /\ Len(LAYERS) > 1
    /\ FindHandler(LAYERS[2], Message(events[2].ns, events[2].cmd)) # NoHandler

Ran(op) == \E i \in EvIdx : events[i].op = op
Count(S) == Cardinality(S)

\* C4: every message handed to _conn_message ends in exactly one of: a layer
\* returned normally, _unknown_message ran, _serializer_exception ran,
\* _unknown_exception ran, terminate ran.
C4_ExactlyOneOutcome ==
    InConnMessage =>
        Count({o \in {"process_message", "_unknown_message",
                      "_serializer_exception", "_unknown_exception",
                      "terminate"} :
                  \E i \in EvIdx :
                      /\ events[i].op = o
                      /\ o = "process_message" => events[i].out = "ok"}) = 1

WellFormed(data) ==
    data.kind = "map" /\ data.args = "list" /\ data.kwargs = "dict"

ClosedWith(code) ==
    /\ \E i \in EvIdx : IsOp(i, "_forceful_close") /\ events[i].code = code
    /\ \E i \in EvIdx : IsOp(i, "_conn_close") /\ events[i].code = code

\* C5: in strict mode a well-formed envelope whose command is not registered
\* ends in a forceful close with code 1002, and a map without `code` in a
\* forceful close with code 1003 (frames delivered without a framing
\* requirement).
C5_StrictCloseCodes ==
    (InConnMessage /\ strict /\ call.binary = None /\ WellFormed(call.data)) =>
        /\ (call.data.hascode
            /\ translate(registry, call.data.ns, call.data.cmd).exc # NoExc)
               => ClosedWith(1002)
        /\ ~call.data.hascode => ClosedWith(1003)

\* C6: once _conn_close has been executed, no later _conn_message hands a
\* message to a layer.
C6_NoDispatchAfterClose ==
    (InConnMessage /\ closedBefore) => ~Ran("process_message")

\* C7: in _conn_message, when a layer handler raises CloseConnection the
\* processor calls terminate() next, calls no further layer, and runs neither
\* _unknown_message nor _unknown_exception for the message (strict or not).
C7_CloseRequestTerminates ==
    InConnMessage =>
        \A i \in EvIdx :
            (IsOp(i, "process_message") /\ events[i].out = "CloseConnection") =>
                /\ IsOp(i + 1, "terminate")
                /\ \A j \in EvIdx : IsOp(j, "process_message") => j <= i
                /\ ~Ran("_unknown_message")
                /\ \A j \in EvIdx :
                       IsOp(j, "_unknown_exception") =>
                           events[j].ctx # "_conn_message"

C7_Witness ==
    /\ InConnMessage
    /\ strict
    /\ \E i \in EvIdx :
           /\ IsOp(i, "process_message") /\ events[i].out = "CloseConnection"
           /\ events[i].layer < Len(LAYERS)
           /\ IsOp(i + 1, "terminate")
    /\ closed

\* C8: terminate() calls _on_goodbye exactly once and, when the hook has
\* returned, _conn_close(1000) right after it; a close with code 1000 never
\* happens before the hook has returned.
C8_GoodbyeThenClose ==
    /\ \A i \in EvIdx :
           IsOp(i, "terminate") =>
               /\ IsOp(i + 1, "_on_goodbye")
               /\ events[i + 1].out = "ok" =>
                      /\ IsOp(i + 2, "_conn_close")
                      /\ events[i + 2].code = 1000
                      /\ events[i + 2].reason = ""
    /\ \A i \in EvIdx :
           IsOp(i, "_on_goodbye") => IsOp(i - 1, "terminate")
    /\ \A i \in EvIdx :
           (IsOp(i, "_conn_close") /\ events[i].code = 1000) =>
               IsOp(i - 1, "_on_goodbye") /\ events[i - 1].out = "ok"

C8_Witness ==
    /\ call.op = "terminate"
    /\ Len(events) = 3
    /\ IsOp(2, "_on_goodbye") /\ events[2].out = "ok"
    /\ IsOp(3, "_conn_close") /\ events[3].code = 1000
    /\ escaped = NoExc

\* C9: whatever _on_goodbye raises, CloseConnection included, goes to
\* _unknown_exception with context 'terminate' (strict: forceful close 1011,
\* lenient: _on_unknown_exception with context 'terminate'), and terminate is
\* not entered again.
C9_GoodbyeFailure ==
    \A i \in EvIdx :
        (IsOp(i, "_on_goodbye") /\ events[i].out # "ok") =>
            /\ IsOp(i + 1, "_unknown_exception")
            /\ events[i + 1].ctx = "terminate"
            /\ events[i + 1].err = events[i].out
            /\ strict => /\ IsOp(i + 2, "_forceful_close")
                         /\ events[i + 2].code = 1011
            /\ ~strict => /\ IsOp(i + 2, "_on_unknown_exception")
                          /\ events[i + 2].ctx = "terminate"
                          /\ events[i + 2].err = events[i].out
            /\ \A j \in EvIdx : j > i => ~IsOp(j, "terminate")

C9_Witness ==
    /\ ~strict
    /\ \E i \in EvIdx :
           /\ IsOp(i, "_on_goodbye") /\ events[i].out = "CloseConnection"
           /\ IsOp(i + 2, "_on_unknown_exception")
           /\ events[i + 2].out = "CloseConnection"
    /\ escaped = "CloseConnection"

\* C10: _forceful_close(code, reason) calls _on_forceful_close(code, reason)
\* first and, the hook having returned, _conn_close with the same code and
\* reason; no close other than terminate's happens without the hook right
\* before it.
C10_HookThenClose ==
    /\ \A i \in EvIdx :
           IsOp(i, "_forceful_close") =>
               /\ IsOp(i + 1, "_on_forceful_close")
               /\ events[i + 1].code = events[i].code
               /\ events[i + 1].reason = events[i].reason
               /\ events[i + 1].out = "ok" =>
                      /\ IsOp(i + 2, "_conn_close")
                      /\ events[i + 2].code = events[i].code
                      /\ events[i + 2].reason = events[i].reason
    /\ \A i \in EvIdx :
           (IsOp(i, "_conn_close") /\ ~IsOp(i - 1, "_on_goodbye")) =>
               /\ IsOp(i - 1, "_on_forceful_close")
               /\ events[i - 1].out = "ok"
               /\ events[i - 1].code = events[i].code
               /\ events[i - 1].reason = events[i].reason
               /\ IsOp(i - 2, "_forceful_close")

C10_Witness ==
    \E i \in EvIdx :
        /\ IsOp(i, "_forceful_close") /\ events[i].code = 1002
        /\ IsOp(i + 1, "_on_forceful_close") /\ events[i + 1].out = "ok"
        /\ IsOp(i + 2, "_conn_close") /\ events[i + 2].code = 1002
        /\ events[i + 2].reason = "Unexistent or unavailable message"

PolicyHooks ==
    {"_on_unknown_message", "_on_serializer_exception", "_on_unknown_exception"}
Policies == {"_unknown_message", "_serializer_exception", "_unknown_exception"}

\* C11: a strict processor never calls _on_unknown_message,
\* _on_serializer_exception or _on_unknown_exception, each of its policies
\* going on to a forceful close; a lenient processor never makes a forceful
\* close, each of its policies going on to its hook.
C11_StrictGovernsPolicies ==
    /\ strict => /\ \A i \in EvIdx : events[i].op \notin PolicyHooks
                 /\ \A i \in EvIdx : events[i].op \in Policies =>
                        IsOp(i + 1, "_forceful_close")
    /\ ~strict => /\ \A i \in EvIdx :
                         /\ events[i].op \notin
                                {"_forceful_close", "_on_forceful_close"}
                         /\ IsOp(i, "_conn_close") => events[i].code = 1000
                  /\ \A i \in EvIdx : events[i].op \in Policies =>
                         /\ i + 1 \in EvIdx
                         /\ events[i + 1].op \in PolicyHooks
                         /\ events[i + 1].op = "_on" \o events[i].op

C11_Witness ==
    /\ strict
    /\ InConnMessage
    /\ \E i \in EvIdx :
           /\ IsOp(i, "_unknown_message")
           /\ IsOp(i + 1, "_forceful_close")
           /\ IsOp(i + 3, "_conn_close")

C13_HelloOutcomes ==
    call.op = "_conn_made" =>
        /\ IsOp(1, "_on_hello")
        /\ \A i \in EvIdx : IsOp(i, "_on_hello") => i = 1
        /\ events[1].out = "ok" => Len(events) = 1 /\ escaped = NoExc
        /\ events[1].out = "CloseConnection" => IsOp(2, "terminate")
        /\ events[1].out = "Exception" =>
               /\ IsOp(2, "_unknown_exception")
               /\ events[2].ctx = "_conn_made"
               /\ ~Ran("terminate")
               /\ strict => /\ IsOp(3, "_forceful_close")
                            /\ events[3].code = 1011
               /\ ~strict => /\ IsOp(3, "_on_unknown_exception")
                             /\ events[3].ctx = "_conn_made"
                             /\ ~Ran("_conn_close")
                             /\ closed = closedBefore

C13_Witness ==
    /\ call.op = "_conn_made"
    /\ ~strict
    /\ IsOp(1, "_on_hello") /\ events[1].out = "Exception"
    /\ IsOp(3, "_on_unknown_exception") /\ events[3].out = "ok"
    /\ ~closed

\* C14: in lenient mode, when _on_unknown_message, _on_serializer_exception
\* or _on_unknown_exception raises CloseConnection while _conn_message or
\* _conn_made runs it, the processor goes on to terminate().
C14_HookMayRequestClose ==
    (~strict /\ call.op \in {"_conn_message", "_conn_made"}) =>
        \A i \in EvIdx :
            (/\ events[i].op \in PolicyHooks
             /\ events[i].ctx # "terminate"
             /\ events[i].out = "CloseConnection") =>
                /\ IsOp(i + 1, "terminate")
                /\ IsOp(i + 2, "_on_goodbye")

\* C15: in lenient mode a failure of a policy hook never leaves
\* _conn_message, _conn_made or terminate.
C15_HookFailureContained ==
    ~strict =>
        \A i \in EvIdx :
            (events[i].op \in PolicyHooks /\ events[i].out = "Exception") =>
                escaped = NoExc

\* C16: in _conn_message, when a layer handler raises any other failure,
\* _unknown_exception runs exactly once with context '_conn_message'
\* (strict: forceful close 1011, lenient: _on_unknown_exception), no further
\* layer is called and _unknown_message does not run.
C16_HandlerFailure ==
    InConnMessage =>
        \A i \in EvIdx :
            (IsOp(i, "process_message") /\ events[i].out = "Exception") =>
                /\ IsOp(i + 1, "_unknown_exception")
                /\ events[i + 1].ctx = "_conn_message"
                /\ Count({j \in EvIdx : IsOp(j, "_unknown_exception")}) = 1
                /\ strict => /\ IsOp(i + 2, "_forceful_close")
                             /\ events[i + 2].code = 1011
                /\ ~strict => IsOp(i + 2, "_on_unknown_exception")
                /\ \A j \in EvIdx : IsOp(j, "process_message") => j <= i
                /\ ~Ran("_unknown_message")

IsRegistered(reg, ns, cmd) == ns \in DOMAIN reg /\ cmd \in reg[ns]

C17_SendChecksDirection ==
    call.op = "send_message" =>
        IF ClientBound(call.direction)
        THEN /\ escaped = NoExc
             /\ IsOp(1, "_trans_serialize")
             /\ IsOp(2, "_conn_send")
             /\ events[2].ns = call.data.ns /\ events[2].cmd = call.data.cmd
        ELSE escaped # NoExc /\ ~Ran("_conn_send")

\* C18: a message parsed from the client reaches a layer only if its command
\* may go to the server (or both ways): the envelope of a registered command
\* that may only go to the client is rejected and no layer sees it.
C18_ParseChecksDirection ==
    InConnMessage =>
        \A i \in EvIdx :
            (/\ IsOp(i, "process_message")
             /\ Key(events[i].ns, events[i].cmd) \in DOMAIN ProtocolConfig) =>
                ServerBound(ProtocolConfig[Key(events[i].ns, events[i].cmd)])

RegisteredPairs(map) ==
    UNION {{<<map[k].spec, map[k].map[c]>> : c \in DOMAIN map[k].map} :
              k \in DOMAIN map}

\* translate(untranslate(ns, code)) = (ns, code), and untranslate of what
\* translate makes of the pair's token is that token
RoundTrips(format, map, ns, code) ==
    LET token == Translator_untranslate(format, ns, code)
        back == Translator_translate(format, map, token)
    IN  /\ back.exc = NoExc
        /\ back.value = <<ns, code>>
        /\ Translator_untranslate(format, back.value[1], back.value[2]) = token

FitsWord(integer) == integer \in 0..(Word - 1)

\* a pair whose token splits back into its two values
Splittable(format, ns, code) ==
    IF format = "FORMAT_STRING" THEN ~HasDot(code.string)
    ELSE FitsWord(ns.integer) /\ FitsWord(code.integer)

\* C20 as stated: for both encodings, every (namespace, code) pair registered
\* in a translator round-trips: untranslate(translate(token)) is the pair's
\* token and translate(untranslate(namespace, code)) is the pair.
C20_RoundTripAllPairs ==
    \A p \in RegisteredPairs(tmap) :
        RoundTrips(Format(TRANSLATOR), tmap, p[1], p[2])

\* C20 (amended): every registered pair whose code name has no dot (text
\* encoding), or whose two integers fit their halves of the command (compact
\* encoding), round-trips.
C20_RoundTrip ==
    \A p \in RegisteredPairs(tmap) :
        Splittable(Format(TRANSLATOR), p[1], p[2]) =>
            RoundTrips(Format(TRANSLATOR), tmap, p[1], p[2])

C20_Witness ==
    /\ call.op = "translate"
    /\ escaped = NoExc
    /\ result \in RegisteredPairs(tmap)
    /\ Format(TRANSLATOR) = "FORMAT_STRING"
    /\ HasDot(result[1].string)
    /\ call.token = Translator_untranslate("FORMAT_STRING", result[1], result[2])

\* C21: for ns and code that fit a half, _split_integer_command of
\* _join_integer_command(ns, code) is (ns, code), the namespace being the high
\* half and the code the low half of the joined value.
C21_CompactRoundTrip ==
    (/\ call.op = "split_join_integer"
     /\ FitsWord(call.ns) /\ FitsWord(call.code)) =>
        /\ escaped = NoExc
        /\ result = <<call.ns, call.code>>
        /\ call.token \in 0..(Word * Word - 1)
        /\ call.token \div Word = call.ns
        /\ call.token % Word = call.code

C21_Witness ==
    /\ call.op = "split_join_integer"
    /\ call.ns = Word - 1 /\ call.code = 1
    /\ result = <<Word - 1, 1>>

\* C22: _split_string_command takes what follows the last dot as the code and
\* what precedes it as the namespace, so the split of the join of any
\* namespace and any code without a dot is that pair; a token without a dot
\* is refused with an error.
C22_TextSplit ==
    /\ (call.op = "split_join_string" /\ ~HasDot(call.code)) =>
           escaped = NoExc /\ result = <<call.ns, call.code>>
    /\ (call.op = "split_string" /\ HasDot(call.token)) =>
           /\ escaped = NoExc
           /\ ~HasDot(result[2])
           /\ result[1] \o <<Dot>> \o result[2] = call.token
    /\ (call.op = "split_string" /\ ~HasDot(call.token)) =>
           escaped = "ValueError"

C22_Witness ==
    /\ call.op = "split_join_string"
    /\ HasDot(call.ns) /\ ~HasDot(call.code)
    /\ result = <<call.ns, call.code>>

\* C23: Translator.namespace(ANY_COMMAND) and add_command(ANY_COMMAND) raise
\* an error and leave the translator's map as it was;
\* add_command_handler(ANY_COMMAND, code, h) with a code that is not
\* ANY_COMMAND raises an error and leaves the layer's handlers and the
\* translator's map as they were.
C23_AnyIsNeverRegistered ==
    [][/\ (call'.op = "namespace" /\ call'.ns = ANY_COMMAND_SPEC) =>
              (escaped' # NoExc /\ tmap' = tmap /\ LAYERS' = LAYERS)
       /\ (call'.op = "add_command" /\ call'.code = ANY_COMMAND_SPEC) =>
              (escaped' # NoExc /\ tmap' = tmap /\ LAYERS' = LAYERS)
       /\ (/\ call'.op = "add_command_handler"
           /\ call'.ns = ANY_COMMAND_SPEC
           /\ call'.code # ANY_COMMAND_SPEC) =>
              (escaped' # NoExc /\ tmap' = tmap /\ LAYERS' = LAYERS)]_vars

C23_Witness ==
    /\ call.op = "add_command_handler"
    /\ call.ns = ANY_COMMAND_SPEC /\ call.code # ANY_COMMAND_SPEC
    /\ call.h = "h1"
    /\ escaped = "ValueError"
    /\ DOMAIN LAYERS[1] # {}
    /\ NumCommands(tmap) > 0

\* C24: an envelope whose namespace is not registered fails in translate
\* through the same lookup as one whose code is unknown in a registered
\* namespace, and parse reports either as UNKNOWN_COMMAND.
C24_UnknownReportedByParse ==
    (/\ InConnMessage
     /\ TRANSLATOR # "UserTranslator"
     /\ call.binary = None
     /\ call.data.kind = "map" /\ call.data.hascode
     /\ ~IsRegistered(registry, call.data.ns, call.data.cmd)) =>
        /\ IsOp(1, "_trans_parse")
        /\ events[1].err = "Translator.Error"
        /\ events[1].reason = "UNKNOWN_COMMAND"

\* C25: parse refuses, before decoding, a frame required to be binary on a
\* translator of the text format (UNEXPECTED_BINARY) and a frame required to
\* be text on a translator of the integer format (UNEXPECTED_TEXT); no
\* message comes out of either.
C25_FramingMismatchRejected ==
    (InConnMessage /\ TRANSLATOR # "UserTranslator") =>
        /\ (call.binary = "True" /\ Format(TRANSLATOR) = "FORMAT_STRING") =>
               /\ IsOp(1, "_trans_parse")
               /\ events[1].err = "Translator.Error"
               /\ events[1].reason = "UNEXPECTED_BINARY"
               /\ ~Ran("process_message")
        /\ (call.binary = "False" /\ Format(TRANSLATOR) = "FORMAT_INTEGER") =>
               /\ IsOp(1, "_trans_parse")
               /\ events[1].err = "Translator.Error"
               /\ events[1].reason = "UNEXPECTED_TEXT"
               /\ ~Ran("process_message")

----------------------------------------------------------------------------
(* task/timed.py: Timeout *)

Armed(t) == t.reached = "False"
OnReachCalls(log) == {i \in DOMAIN log : log[i].op = "on_reach"}
BackendCalls(log) == {i \in DOMAIN log : log[i].op \in {"_set", "_unset"}}

C27_ForceStopFires ==
    [][(call'.op = "force_stop" /\ Armed(timeout))
          => /\ Cardinality(OnReachCalls(events')) = 1
             /\ \A i \in OnReachCalls(events') : events'[i].out = "True"
             /\ \E i \in DOMAIN events' : events'[i].op = "_unset"
             /\ ~Armed(timeout')]_vars

\* C28: when the delay of an armed timer elapses before any force_stop(),
\* on_reach is invoked exactly once with forced false and the timer is not
\* armed afterwards.
C28_ExpiryFires ==
    [][(call'.op = "expire" /\ Armed(timeout) /\ ~timeout.stopped)
          => /\ Cardinality(OnReachCalls(events')) = 1
             /\ \A i \in OnReachCalls(events') : events'[i].out = "False"
             /\ ~Armed(timeout')]_vars

\* C29: reset() on a timer still armed, its delay not yet elapsed, fails with
\* STILL_RUNNING and leaves it armed; reset() on a timer whose delay has
\* elapsed returns it to the never-armed state.
C29_ResetAfterFiring ==
    [][call'.op = "reset"
          => IF timeout.timer = "fired"
             THEN escaped' = NoExc /\ timeout'.reached = "None"
             ELSE Armed(timeout)
                     => escaped' = "STILL_RUNNING" /\ timeout' = timeout]_vars

----------------------------------------------------------------------------
(* The handling of one message at a time *)

----------------------------------------------------------------------------
(* What the running processor leaves alone *)

\* C32: no event of a running connection (connection made, message received,
\* message sent, terminate, forceful close) changes the namespaces or the
\* codes registered in the translator, or the handler table of any layer.
C32_SetupOnlyMutation ==
    [][registry' = registry /\ LAYERS' = LAYERS]_vars

C32_Witness ==
    /\ call.op = "send_message"
    /\ closed
    /\ registry = Fed
    /\ \E i \in 1..Len(LAYERS) : Key("a", "x") \in DOMAIN LAYERS[i]

----------------------------------------------------------------------------
(* The translator the layers register into *)

ExactKeys(table) ==
    {k \in DOMAIN table : k[1] # ANY_COMMAND_SPEC /\ k[2] # ANY_COMMAND_SPEC}

Translatable(format, map, ns, code) ==
    /\ spec_value(format, ns) \in DOMAIN map
    /\ spec_value(format, code) \in DOMAIN map[spec_value(format, ns)].map

\* C33: every layer of a processor type is built with the translator instance
\* the processor parses and serializes with, and once the type is set up
\* every (namespace, code) with an exact handler in a layer is translatable
\* by that translator.
C33_OneAddressingSpace ==
    /\ \A i \in DOMAIN LAYERS : layerTranslator[i] = TranslatorInstance
    /\ ~Creating =>
          \A i \in DOMAIN LAYERS :
              \A k \in ExactKeys(LAYERS[i]) :
                  Translatable(Format(TRANSLATOR), tmap, k[1], k[2])

----------------------------------------------------------------------------
(* Codes registered twice *)

\* the entry add_command is called on, in the map before the call
EntryOf(map, ns) == map[spec_value(Format(TRANSLATOR), ns)]

\* C34: registering in a namespace a code that is registered already either
\* returns with the entry as it was or fails with the `factory already
\* exists` error; the spec registered before is never replaced.
C34_DuplicateKeepsEntry ==
    [][(/\ call'.op = "add_command"
        /\ spec_value(Format(TRANSLATOR), call'.ns) \in DOMAIN tmap
        /\ spec_value(Format(TRANSLATOR), call'.code)
              \in DOMAIN EntryOf(tmap, call'.ns).map)
          => /\ escaped' \in {NoExc, "FACTORY_ALREADY_EXISTS"}
             /\ EntryOf(tmap', call'.ns) = EntryOf(tmap, call'.ns)]_vars

----------------------------------------------------------------------------
(* Namespaces registered twice *)

----------------------------------------------------------------------------
(* What serialize puts on the wire *)

\* C36: the map serialize encodes has as `code` the untranslated command of
\* the message, has `args` only when the message has positional arguments
\* and `kwargs` only when it has named ones, and parsing what was encoded
\* gives a message of the same command, args and kwargs.
C36_SerializeOmitsEmpty ==
    call.op = "serialize" =>
        /\ result.data.code =
              Translator_untranslate(Format(TRANSLATOR), call.ns, call.code)
        /\ ("args" \in DOMAIN result.data) <=> (result.message.args # <<>>)
        /\ ("kwargs" \in DOMAIN result.data) <=> (result.message.kwargs # <<>>)
        /\ result.parsed = Returned(result.message)

----------------------------------------------------------------------------
(* The protocol configuration *)

Configured(config) ==
    {<<n, c>> : n \in DOMAIN config, c \in {"say", "said"}}

\* C37: setup registers every command of the protocol configuration with the
\* direction its word names, and a registered command is then sent to the
\* client when its direction includes the client, and refused by the
\* direction validation when it does not.
C37_ConfiguredDirections ==
    legacy.set_up =>
        /\ \A k \in Configured(legacy.config) :
               /\ k[1] \in DOMAIN legacy.ns_set
               /\ k[2] \in DOMAIN legacy.ns_set[k[1]]
               /\ legacy.ns_set[k[1]][k[2]] = opts(legacy.config[k[1]][k[2]])
        /\ (call.op = "send_message"
               /\ <<call.ns, call.code>> \in Configured(legacy.config)) =>
              IF ClientBound(legacy.ns_set[call.ns][call.code])
              THEN escaped = NoExc /\ Ran("_conn_send")
              ELSE /\ escaped = "CANNOT_REPRESENT_NONCLIENT_MESSAGE"
                   /\ ~Ran("_conn_send")

----------------------------------------------------------------------------
(* Framing that matches the translator *)

FramingErrors == {"UNEXPECTED_BINARY", "UNEXPECTED_TEXT"}

\* C38: a frame with no framing required, a frame required to be text on a
\* translator of the text format, and a frame required to be binary on a
\* translator of the integer format are never refused with UNEXPECTED_BINARY
\* or UNEXPECTED_TEXT: parse goes on to decode them.
C38_MatchingFramingAccepted ==
    (/\ InConnMessage
     /\ TRANSLATOR # "UserTranslator"
     /\ \/ call.binary = None
        \/ call.binary = "False" /\ Format(TRANSLATOR) = "FORMAT_STRING"
        \/ call.binary = "True" /\ Format(TRANSLATOR) = "FORMAT_INTEGER") =>
        /\ IsOp(1, "_trans_parse")
        /\ events[1].reason \notin FramingErrors

----------------------------------------------------------------------------
(* terminate() and the closing of the connection *)

Closes == {i \in EvIdx : events[i].op = "_conn_close"}

\* C39: when terminate() returns, _conn_close has been called exactly once,
\* in strict and in lenient mode, whether the goodbye hook raised or not, and
\* with code 1000 when the hook returned normally.
C39_TerminateCloses ==
    (call.op = "terminate" /\ escaped = NoExc) =>
        /\ Cardinality(Closes) = 1
        /\ (\E i \in EvIdx : events[i].op = "_on_goodbye" /\ events[i].out = "ok")
              => \A i \in Closes : events[i].code = 1000

----------------------------------------------------------------------------
(* What add_command_handler does to the translator and to the table *)

NsKey(ns) == spec_value(Format(TRANSLATOR), ns)

\* the namespaces registered before are as they were, and ns is registered
OnlyNamespaceAdded(before, after, ns) ==
    /\ DOMAIN after = DOMAIN before \cup {NsKey(ns)}
    /\ \A k \in DOMAIN before : after[k] = before[k]
    /\ NsKey(ns) \notin DOMAIN before => DOMAIN after[NsKey(ns)].map = {}

\* one entry of the table, keyed (ns, cmd), is added or replaced
OneEntryStored(before, after, ns, cmd, h) ==
    /\ DOMAIN after = DOMAIN before \cup {<<ns, cmd>>}
    /\ after[<<ns, cmd>>] = h
    /\ \A k \in DOMAIN before \ {<<ns, cmd>>} : after[k] = before[k]

\* C40: an add_command_handler that succeeds makes the namespace and the code
\* of an exact (ns, code) translatable, registers the namespace alone and no
\* code for (ns, ANY), leaves the translator as it was for (ANY, ANY), and in
\* each case adds or replaces the one entry (ns, command) of the handler
\* table, every other entry staying as it was.
C40_HandlerRegistrationEffect ==
    [][(call'.op = "add_command_handler" /\ escaped' = NoExc) =>
          /\ (call'.ns # ANY_COMMAND_SPEC /\ call'.code # ANY_COMMAND_SPEC)
                => Translatable(Format(TRANSLATOR), tmap', call'.ns, call'.code)
          /\ (call'.ns # ANY_COMMAND_SPEC /\ call'.code = ANY_COMMAND_SPEC)
                => OnlyNamespaceAdded(tmap, tmap', call'.ns)
          /\ call'.ns = ANY_COMMAND_SPEC => tmap' = tmap
          /\ OneEntryStored(LAYERS[1], LAYERS'[1], call'.ns, call'.code,
                            call'.h)]_vars

C40_Witness ==
    /\ call.op = "add_command_handler"
    /\ escaped = NoExc
    /\ call.ns # ANY_COMMAND_SPEC /\ call.code # ANY_COMMAND_SPEC
    /\ Translatable(Format(TRANSLATOR), tmap, call.ns, call.code)
    /\ <<call.ns, ANY_COMMAND_SPEC>> \in DOMAIN LAYERS[1]
    /\ <<ANY_COMMAND_SPEC, ANY_COMMAND_SPEC>> \in DOMAIN LAYERS[1]

====
